---- MODULE Spec2Model ----
(***************************************************************************)
(* Model of the incremental fetch-and-upsert engine of tw_stock:           *)
(*   margin_purchase_short_sale/update.py  (planner, watermark, schema     *)
(*                                          reconciler, writer, runs)      *)
(*   margin_purchase_short_sale/base.py    (fetch adapter, normalizer)     *)
(*   stock_information/transform_to_clean_table.py  (clean-table upsert    *)
(*                                          in batches, industry sync)     *)
(*                                                                         *)
(* Calendar dates are day ordinals counted from START_FALLBACK             *)
(* (ordinal 0 is 2001-01-01).  ISO strings are modelled by their fields    *)
(* <<year, month, day>> over a small calendar, compared field by field as  *)
(* Python compares fixed-width zero-padded strings.                        *)
(***************************************************************************)
EXTENDS Integers, Sequences, FiniteSets, TLC

VARIABLES
  \* _daterange_chunks, one generator object
  pStart, pEnd, pStep, pCur, pOut, pPc,
  \* the table taiwan_stock_margin_purchase_short_sale: its rows, its columns,
  \* the server clock, and what the latest _upsert_df_to_mysql /
  \* _ensure_missing_columns call issued and returned
  store, schema, now, sqlLog, wRet,
  \* run_full_history: the day it runs on, how many runs were started, where
  \* the run is, the index of the symbol in hand, and, of
  \* run_full_history_for_symbol, start, the planner's cursor and
  \* total_written
  today, runNo, rPc, idx, rStart, rCur, rTotal,
  \* what happened: this run's chunks in order, this run's returned totals,
  \* and the chunks whose fetch failed in this run and the run before
  attempts, returned, failed,
  \* the provider: the days it has a record for, of every stock
  provider,
  \* the table tw_stock_company_info_clean and main() of
  \* transform_to_clean_table: the rows, the server clock, where main is,
  \* to_insert from the next batch on, the statements main has sent, and
  \* inserted
  cStore, cNow, cPc, cTodo, cLog, cInserted

planVars == <<pStart, pEnd, pStep, pCur, pOut, pPc>>
dbVars == <<store, schema, now, sqlLog, wRet>>
runVars == <<today, runNo, rPc, idx, rStart, rCur, rTotal>>
histVars == <<attempts, returned, failed>>
cleanVars == <<cStore, cNow, cPc, cTodo, cLog, cInserted>>
vars == <<planVars, dbVars, runVars, histVars, provider, cleanVars>>

\* ------------------------------------------------------------------ bounds
\* Largest day ordinal an input date may take.
MaxDay == 5
\* Largest step_days tried (the smallest is -1).
MaxStep == 3
\* Chunks a generator with step_days <= 0 is followed for (it never ends).
MaxIter == 3
\* The small calendar: days in a month, months in a year.
DaysPerMonth == 3
MonthsPerYear == 2

\* Rows of one DataFrame handed to the writer; ticks of the server clock.
MaxRows == 2
MaxClock == 2
\* The last day a run may take place on, and the runs followed.
MaxToday == 2
MaxRuns == 2
\* CHUNK_DAYS, 120 in update.py, scaled to the small calendar.
CHUNK_DAYS == 2
\* records per batch of the clean-table upsert (100 in the code), and runs
\* of its main
UPSERT_BATCH_SIZE == 2
MaxCleanRuns == 2

Days == 0..MaxDay
StepValues == (0 - 1)..MaxStep

\* ---------------------------------------------------------------- calendar
DaysPerYear == DaysPerMonth * MonthsPerYear

\* date.isoformat(): the fields of "YYYY-MM-DD"
Iso(d) ==
  << d \div DaysPerYear,
     ((d % DaysPerYear) \div DaysPerMonth) + 1,
     (d % DaysPerMonth) + 1 >>

\* datetime.strptime(s, "%Y-%m-%d").date()
Strptime(s) == s[1] * DaysPerYear + (s[2] - 1) * DaysPerMonth + (s[3] - 1)

\* Python's str > str on two ISO strings: lexicographic, field by field
StrGT(a, b) ==
  \/ a[1] > b[1]
  \/ a[1] = b[1] /\ a[2] > b[2]
  \/ a[1] = b[1] /\ a[2] = b[2] /\ a[3] > b[3]

IsoDates == { Iso(d) : d \in Days }

Min(a, b) == IF a <= b THEN a ELSE b

\* ------------------------------------------------------------------ values
\* A cell is Null (None, NaN, pd.NA, NaT, SQL NULL) or a one-field tuple
\* holding its value; a date string is its <<year, month, day>> fields.
Null == <<>>

\* a date string pd.to_datetime cannot parse, such as "2001-00-00"
BadDate == <<0, 0, 0>>

ValidIso(s) ==
  /\ s # Null
  /\ s[2] \in 1..MonthsPerYear
  /\ s[3] \in 1..DaysPerMonth

SeqToSet(q) == { q[i] : i \in 1..Len(q) }

\* ------------------------------------------------------------- the table
CanonicalCols ==
  << "date", "stock_id",
     "margin_purchase_buy", "margin_purchase_cash_repayment",
     "margin_purchase_limit", "margin_purchase_sell",
     "margin_purchase_today_balance", "margin_purchase_yesterday_balance",
     "note", "offset_loan_and_short",
     "short_sale_buy", "short_sale_cash_repayment", "short_sale_limit",
     "short_sale_sell", "short_sale_today_balance",
     "short_sale_yesterday_balance" >>

KeyCols == {"stock_id", "date"}

\* CREATE TABLE IF NOT EXISTS ...: the columns and their types
DDL ==
  [ c \in SeqToSet(CanonicalCols) \cup {"created_at", "updated_at"} |->
      CASE c = "date" -> "DATE"
        [] c = "stock_id" -> "VARCHAR(10)"
        [] c = "note" -> "VARCHAR(255)"
        [] c \in {"created_at", "updated_at"} -> "TIMESTAMP"
        [] OTHER -> "BIGINT" ]

\* FinMind -> snake_case
FINMIND_TO_SNAKE ==
  [ MarginPurchaseBuy |-> "margin_purchase_buy",
    MarginPurchaseCashRepayment |-> "margin_purchase_cash_repayment",
    MarginPurchaseLimit |-> "margin_purchase_limit",
    MarginPurchaseSell |-> "margin_purchase_sell",
    MarginPurchaseTodayBalance |-> "margin_purchase_today_balance",
    MarginPurchaseYesterdayBalance |-> "margin_purchase_yesterday_balance",
    Note |-> "note",
    OffsetLoanAndShort |-> "offset_loan_and_short",
    ShortSaleBuy |-> "short_sale_buy",
    ShortSaleCashRepayment |-> "short_sale_cash_repayment",
    ShortSaleLimit |-> "short_sale_limit",
    ShortSaleSell |-> "short_sale_sell",
    ShortSaleTodayBalance |-> "short_sale_today_balance",
    ShortSaleYesterdayBalance |-> "short_sale_yesterday_balance" ]

SNAKE_EXPECTED == CanonicalCols

\* ---------------------------------------------------------- DataFrames
\* A DataFrame is [columns |-> sequence of names, dtypes |-> function from
\* the names to dtypes, rows |-> sequence of functions from the names to
\* cells].
EmptyDf == [columns |-> <<>>, dtypes |-> <<>>, rows |-> <<>>]

CanonicalSet == SeqToSet(CanonicalCols)
FinmindNames == DOMAIN FINMIND_TO_SNAKE

\* the FinMind name a snake_case name is renamed from
SNAKE_TO_FINMIND ==
  [ c \in { FINMIND_TO_SNAKE[o] : o \in FinmindNames } |->
      CHOOSE o \in FinmindNames : FINMIND_TO_SNAKE[o] = c ]
SnakeNames == DOMAIN SNAKE_TO_FINMIND

ColNames(df) == DOMAIN df.dtypes

\* df.empty
DfEmpty(df) == Len(df.columns) = 0 \/ Len(df.rows) = 0

\* pd.to_datetime(x, errors="coerce").dt.date.astype("string"): the ISO
\* string of the date, NA for what does not parse; a mutant that keeps the
\* raw string is kept beside it
ToDateString_Keep(x) == x
ToDateString(x) == IF ValidIso(x) THEN Iso(Strptime(x)) ELSE Null

\* the order sort_values("date") puts two cells in: ascending, NA last
DateBefore(a, b) ==
  /\ a # Null
  /\ (b = Null \/ StrGT(b, a))

RECURSIVE InsertSorted(_, _)
\* r goes after every row of q that is not after it (a stable sort)
InsertSorted(q, r) ==
  IF q = <<>> THEN <<r>>
  ELSE IF DateBefore(r["date"], q[Len(q)]["date"])
       THEN Append(InsertSorted(SubSeq(q, 1, Len(q) - 1), r), q[Len(q)])
       ELSE Append(q, r)

RECURSIVE SortByDate(_)
\* sort_values("date", kind="stable")
SortByDate(q) ==
  IF q = <<>> THEN <<>>
  ELSE InsertSorted(SortByDate(SubSeq(q, 1, Len(q) - 1)), q[Len(q)])

\* the name rename(columns=FINMIND_TO_SNAKE) gives column c; a mutant that
\* renames nothing is kept beside it
Rename_Keep(c) == c
Rename(c) == IF c \in FinmindNames THEN FINMIND_TO_SNAKE[c] ELSE c

\* df.rename(columns=FINMIND_TO_SNAKE): one row
RenameRow(r) ==
  [c \in { Rename(o) : o \in DOMAIN r } |->
     IF c \in DOMAIN r THEN r[c] ELSE r[SNAKE_TO_FINMIND[c]]]

\* df.rename(columns=FINMIND_TO_SNAKE, inplace=True)
RenameDf(df) ==
  [columns |-> [i \in 1..Len(df.columns) |-> Rename(df.columns[i])],
   dtypes |-> RenameRow(df.dtypes),
   rows |-> [i \in 1..Len(df.rows) |-> RenameRow(df.rows[i])]]

\* the names of q that are not in S, in q's order
Without(q, S) == SelectSeq(q, LAMBDA c : c \notin S)

\* for col in SNAKE_EXPECTED: if col not in df.columns: df[col] = pd.NA
FillRow(r, names, v) ==
  [c \in names \cup CanonicalSet |-> IF c \in names THEN r[c] ELSE v]

FillExpected(df) ==
  [columns |-> df.columns \o Without(SNAKE_EXPECTED, ColNames(df)),
   dtypes |-> FillRow(df.dtypes, ColNames(df), "object"),
   rows |-> [i \in 1..Len(df.rows) |->
               FillRow(df.rows[i], ColNames(df), Null)]]

\* df["date"] = pd.to_datetime(df["date"], errors="coerce")
\*                 .dt.date.astype("string")
CoerceDate(df) ==
  [columns |-> df.columns,
   dtypes |-> [df.dtypes EXCEPT !["date"] = "string"],
   rows |-> [i \in 1..Len(df.rows) |->
               [df.rows[i] EXCEPT !["date"] = ToDateString(@)]]]

\* df[cols + [c for c in df.columns if c not in cols]]
Reorder(df, cols) ==
  [columns |-> cols \o Without(df.columns, SeqToSet(cols)),
   dtypes |-> df.dtypes,
   rows |-> df.rows]

\* out = df[SNAKE_EXPECTED + remain].sort_values("date", kind="stable")
SortFrame(df) ==
  [columns |-> Reorder(df, SNAKE_EXPECTED).columns,
   dtypes |-> df.dtypes,
   rows |-> SortByDate(df.rows)]

\* out["_fetched_at"] = now; out["_source"] = "FinMind"
Stamp(df, t) ==
  [columns |-> df.columns \o <<"_fetched_at", "_source">>,
   dtypes |-> [c \in DOMAIN df.dtypes \cup {"_fetched_at", "_source"} |->
                 IF c \in {"_fetched_at", "_source"} THEN "object"
                 ELSE df.dtypes[c]],
   rows |-> [i \in 1..Len(df.rows) |->
               [c \in DOMAIN df.rows[i] \cup {"_fetched_at", "_source"} |->
                  IF c = "_fetched_at" THEN <<t>>
                  ELSE IF c = "_source" THEN <<"FinMind">>
                  ELSE df.rows[i][c]]]]

\* finmind_to_snake(df), run at time t
finmind_to_snake(df, t) ==
  IF DfEmpty(df) THEN df
  ELSE Stamp(SortFrame(CoerceDate(FillExpected(RenameDf(df)))), t)

\* df_nulls_to_none(df): NaN and pd.NA become None.  Every absent marker is
\* the one cell Null here, so the frame's cells are kept as they are.
df_nulls_to_none(df) ==
  IF DfEmpty(df) THEN df
  ELSE [columns |-> df.columns,
        dtypes |-> df.dtypes,
        rows |-> [i \in 1..Len(df.rows) |->
                    [c \in DOMAIN df.rows[i] |->
                       IF df.rows[i][c] = Null THEN Null ELSE df.rows[i][c]]]]

\* ------------------------------------------------------------ statements
\* One statement sent to the server: op is "SHOW COLUMNS", "ALTER TABLE" or
\* "INSERT"; adds are an ALTER's ADD COLUMN parts; cols, n and nullKey are an
\* INSERT's column list, its number of records and whether one of them has a
\* Null date or stock_id; answer is "ok" or the error the server answered.
Stmt(op, adds, cols, n, nullKey, answer) ==
  [op |-> op, adds |-> adds, cols |-> cols, n |-> n, nullKey |-> nullKey,
   answer |-> answer]

ShowColumns == Stmt("SHOW COLUMNS", <<>>, <<>>, 0, FALSE, "ok")

\* ------------------------------------------------------ schema reconciler
\* BIGINT / DOUBLE / VARCHAR(255) by dtype; a mutant that never infers
\* BIGINT is kept beside it
ColType_NoInt(dtype) ==
  IF dtype = "float" THEN "DOUBLE" ELSE "VARCHAR(255)"
ColType(dtype) ==
  IF dtype = "int" THEN "BIGINT"
  ELSE IF dtype = "float" THEN "DOUBLE"
  ELSE "VARCHAR(255)"

\* the columns of df that are not stock_id or date and that SHOW COLUMNS did
\* not list
MissingColumns(df, existing) == Without(df.columns, KeyCols \cup existing)

\* alter_parts: one <<column, type>> per missing column
AlterParts(missing, dtypes) ==
  [i \in 1..Len(missing) |-> <<missing[i], ColType(dtypes[missing[i]])>>]

PartNames(parts) == { parts[i][1] : i \in 1..Len(parts) }

PartType(parts, c) == parts[CHOOSE i \in 1..Len(parts) : parts[i][1] = c][2]

\* ALTER TABLE ... ADD COLUMN `c` type NULL, ...: the columns afterwards; a
\* mutant that retypes a column already there is kept beside it
AlterTable_Retype(sch, parts) ==
  [c \in DOMAIN sch \cup PartNames(parts) |->
     IF c \in PartNames(parts) THEN PartType(parts, c)
     ELSE IF c = "note" THEN "VARCHAR(10)" ELSE sch[c]]
AlterTable(sch, parts) ==
  [c \in DOMAIN sch \cup PartNames(parts) |->
     IF c \in DOMAIN sch THEN sch[c] ELSE PartType(parts, c)]

\* the rows after the ALTER: every row has NULL in each added column
AlterRows(st, added) ==
  { [c \in DOMAIN r \cup added |-> IF c \in DOMAIN r THEN r[c] ELSE Null] :
      r \in st }

\* the rest of _ensure_missing_columns once alter_parts is built: nothing
\* more when it is empty, else the ALTER, which the server accepts or not
EnsureWith(alter_parts, st, sch, alterOk) ==
  IF alter_parts = <<>>
  THEN [store |-> st, schema |-> sch, log |-> <<ShowColumns>>, exc |-> "none"]
  ELSE IF alterOk
  THEN [store |-> AlterRows(st, PartNames(alter_parts)),
        schema |-> AlterTable(sch, alter_parts),
        log |-> <<ShowColumns,
                  Stmt("ALTER TABLE", alter_parts, <<>>, 0, FALSE, "ok")>>,
        exc |-> "none"]
  ELSE [store |-> st, schema |-> sch,
        log |-> <<ShowColumns,
                  Stmt("ALTER TABLE", alter_parts, <<>>, 0, FALSE, "SchemaError")>>,
        exc |-> "SchemaError"]

\* _ensure_missing_columns(df) on table (st, sch); alterOk is whether the
\* server accepts the ALTER.  exc is "none" or the failure raised.
ensure_missing_columns(df, st, sch, alterOk) ==
  IF DfEmpty(df)
  THEN [store |-> st, schema |-> sch, log |-> <<>>, exc |-> "none"]
  ELSE EnsureWith(AlterParts(MissingColumns(df, DOMAIN sch), df.dtypes),
                  st, sch, alterOk)

\* ------------------------------------------------------------ upsert writer
\* cols: the columns of the INSERT
InsertCols == CanonicalCols
InsertSet == SeqToSet(InsertCols)

\* the columns ON DUPLICATE KEY UPDATE assigns from VALUES()
UpdateCols == InsertSet \ KeyCols

\* the DATE the server stores for a date string
SqlDate(s) == <<Strptime(s)>>

SameKey(r, rec) ==
  /\ r["stock_id"] = rec["stock_id"]
  /\ r["date"] = SqlDate(rec["date"])

\* the row a fresh key gets: the INSERT's columns, both timestamps at the
\* server's time, NULL elsewhere; a mutant that also fills the _source column
\* is kept beside it
NewRow_Stamped(sch, rec, t) ==
  [c \in DOMAIN sch |->
     IF c = "date" THEN SqlDate(rec["date"])
     ELSE IF c \in InsertSet THEN rec[c]
     ELSE IF c \in {"created_at", "updated_at"} THEN <<t>>
     ELSE IF c = "_source" THEN <<"FinMind">>
     ELSE Null]
NewRow(sch, rec, t) ==
  [c \in DOMAIN sch |->
     IF c = "date" THEN SqlDate(rec["date"])
     ELSE IF c \in InsertSet THEN rec[c]
     ELSE IF c \in {"created_at", "updated_at"} THEN <<t>>
     ELSE Null]

\* the row a key conflict leaves
UpdatedRow(r, rec, t) ==
  [c \in DOMAIN r |->
     IF c \in UpdateCols THEN rec[c]
     ELSE IF c = "updated_at" THEN <<t>>
     ELSE r[c]]

\* INSERT ... ON DUPLICATE KEY UPDATE of one record; two mutants are kept
\* beside it: one without the primary key (every record becomes a row), one
\* that replaces the table's rows by the record
UpsertRow_NoKey(st, sch, rec, t) == st \cup {NewRow(sch, rec, t)}
UpsertRow_Replace(st, sch, rec, t) == {NewRow(sch, rec, t)}
UpsertRow(st, sch, rec, t) ==
  IF \E r \in st : SameKey(r, rec)
  THEN { IF SameKey(r, rec) THEN UpdatedRow(r, rec, t) ELSE r : r \in st }
  ELSE st \cup {NewRow(sch, rec, t)}

RECURSIVE ExecuteMany(_, _, _, _)
\* cur.executemany(sql, records): the records in order
ExecuteMany(st, sch, records, t) ==
  IF records = <<>> THEN st
  ELSE UpsertRow(ExecuteMany(st, sch, SubSeq(records, 1, Len(records) - 1), t),
                 sch, records[Len(records)], t)

\* df[cols]
ProjectRow(r, S) == [c \in S |-> r[c]]

Project(df, cols) ==
  [columns |-> cols,
   dtypes |-> ProjectRow(df.dtypes, SeqToSet(cols)),
   rows |-> [i \in 1..Len(df.rows) |->
               ProjectRow(df.rows[i], SeqToSet(cols))]]

HasNullKey(records) ==
  \E i \in 1..Len(records) :
    records[i]["date"] = Null \/ records[i]["stock_id"] = Null

InsertStmt(records, answer) ==
  Stmt("INSERT", <<>>, InsertCols, Len(records), HasNullKey(records), answer)

\* what the server answers the INSERT with when asked to answer dbErr
InsertAnswer(records, dbErr) ==
  IF dbErr # "none" THEN dbErr
  ELSE IF HasNullKey(records) THEN "IntegrityError"
  ELSE "ok"

\* the INSERT and the commit of _upsert_df_to_mysql, after the reconciler
\* ended as ens.  dbErr: "none" or the error the server answers the INSERT
\* with; a record with a NULL key column is answered with an IntegrityError
\* (both columns are NOT NULL).  Without the commit nothing of the INSERT
\* stays.
InsertAndCommit(ens, records, t, dbErr) ==
  IF ens.exc # "none"
  THEN [store |-> ens.store, schema |-> ens.schema, log |-> ens.log,
        exc |-> ens.exc, ret |-> 0]
  ELSE IF InsertAnswer(records, dbErr) # "ok"
  THEN [store |-> ens.store, schema |-> ens.schema,
        log |-> Append(ens.log,
                       InsertStmt(records, InsertAnswer(records, dbErr))),
        exc |-> InsertAnswer(records, dbErr),
        ret |-> 0]
  ELSE [store |-> ExecuteMany(ens.store, ens.schema, records, t),
        schema |-> ens.schema,
        log |-> Append(ens.log, InsertStmt(records, "ok")),
        exc |-> "none",
        ret |-> Len(records)]

\* _upsert_df_to_mysql from its df = df[cols + ...] on
UpsertNormalized(df, st, sch, t, alterOk, dbErr) ==
  InsertAndCommit(ensure_missing_columns(df, st, sch, alterOk),
                  df_nulls_to_none(Project(df, InsertCols)).rows, t, dbErr)

\* _upsert_df_to_mysql(df) on table (st, sch) at server time t.  alterOk: the
\* server accepts the ALTER; dbErr: what it answers the INSERT with.  ret is
\* the value returned, exc the failure raised ("none": it returned).
upsert_df_to_mysql(df, st, sch, t, alterOk, dbErr) ==
  IF DfEmpty(df)
  THEN [store |-> st, schema |-> sch, log |-> <<>>, exc |-> "none", ret |-> 0]
  ELSE UpsertNormalized(Reorder(finmind_to_snake(df, t), InsertCols),
                        st, sch, t, alterOk, dbErr)

\* ------------------------------------------------- the writer, called alone
\* ensure_table_exists() has run: the table is as the DDL makes it, empty
InitDb ==
  /\ store = {}
  /\ schema = DDL
  /\ now = 0
  /\ sqlLog = <<>>
  /\ wRet = [exc |-> "none", ret |-> 0]

\* pd.DataFrame(res["data"]) of FinMind records with these fields
BaseCols == <<"date", "stock_id", "MarginPurchaseBuy">>
BaseDtypes ==
  [date |-> "object", stock_id |-> "object", MarginPurchaseBuy |-> "int"]

RawRow(d, sid, v) == [date |-> d, stock_id |-> <<sid>>, MarginPurchaseBuy |-> v]

\* the records the writer is tried on: one key written with and without a
\* value, the same date of another stock, one unparsable date
WriterRows ==
  { RawRow(Iso(0), "2330", Null),
    RawRow(Iso(0), "2330", <<10>>),
    RawRow(Iso(0), "2317", <<10>>),
    RawRow(BadDate, "2330", <<10>>) }

SeqsUpTo(S, n) == UNION { [1..k -> S] : k \in 0..n }

\* frames of the known fields, with 0..MaxRows records
PlainDfs ==
  { [columns |-> BaseCols, dtypes |-> BaseDtypes, rows |-> q] :
      q \in SeqsUpTo(WriterRows, MaxRows) }

\* frames of one record, of another date, carrying a field the table has no
\* column for
NewFieldDfs ==
  { [columns |-> Append(BaseCols, "NewField"),
     dtypes |-> [date |-> "object", stock_id |-> "object",
                 MarginPurchaseBuy |-> "int", NewField |-> dt],
     rows |-> << [date |-> Iso(1), stock_id |-> <<"2330">>,
                  MarginPurchaseBuy |-> <<10>>, NewField |-> <<7>>] >>] :
    dt \in {"int", "float", "object"} }

\* a frame of one record more than a batch of the clean-table upsert holds
LongDf ==
  [columns |-> BaseCols, dtypes |-> BaseDtypes,
   rows |-> [i \in 1..(UPSERT_BATCH_SIZE + 1) |->
               RawRow(Iso(0), IF i % 2 = 1 THEN "2330" ELSE "2317", <<10>>)]]

RawDfs == {EmptyDf, LongDf} \cup PlainDfs \cup NewFieldDfs

\* the OperationalError codes of a connection that has gone away
StaleErrors == {"OperationalError(2006)", "OperationalError(2013)"}

\* what the server may answer an INSERT with
DbErrors == {"none", "DataError", "OperationalError(2006)"}

\* how the server answers one call: <<it accepts the ALTER, its answer to the
\* INSERT>>; after a rejected ALTER no INSERT is sent
ServerAnswers == { <<TRUE, e>> : e \in DbErrors } \cup { <<FALSE, "none">> }

\* the table and the caller's view after a call that ended as res
DbBecomes(res) ==
  /\ store' = res.store
  /\ schema' = res.schema
  /\ sqlLog' = res.log
  /\ wRet' = [exc |-> res.exc, ret |-> res.ret]

Returning(res, v) ==
  [store |-> res.store, schema |-> res.schema, log |-> res.log,
   exc |-> res.exc, ret |-> v]

\* a call of _upsert_df_to_mysql(df)
WriterUpsert ==
  /\ now < MaxClock
  /\ \E df \in RawDfs, ans \in ServerAnswers :
       DbBecomes(upsert_df_to_mysql(df, store, schema, now + 1, ans[1], ans[2]))
  /\ now' = now + 1
  /\ UNCHANGED <<planVars, runVars, histVars>>
  /\ UNCHANGED <<cleanVars, provider>>

\* frames _ensure_missing_columns is called on directly: the normalized
\* frames, and their canonical columns alone
ReconcilerDfs ==
  { finmind_to_snake(df, 0) : df \in NewFieldDfs \cup {EmptyDf} }
    \cup { Project(finmind_to_snake(df, 0), InsertCols) : df \in NewFieldDfs }

\* a call of _ensure_missing_columns(df)
WriterEnsure ==
  /\ \E df \in ReconcilerDfs, alterOk \in BOOLEAN :
       DbBecomes(Returning(ensure_missing_columns(df, store, schema, alterOk), 0))
  /\ UNCHANGED now
  /\ UNCHANGED <<planVars, runVars, histVars>>
  /\ UNCHANGED <<cleanVars, provider>>

\* no planner of its own is running
NoPlan ==
  /\ pStart = Iso(0)
  /\ pEnd = Iso(0)
  /\ pStep = 1
  /\ pCur = 0
  /\ pOut = <<>>
  /\ pPc = "done"

\* run_full_history has not been called
InitRun ==
  /\ today = Iso(0)
  /\ runNo = 0
  /\ rPc = "idle"
  /\ idx = 0
  /\ rStart = Iso(0)
  /\ rCur = 0
  /\ rTotal = 0
  /\ attempts = <<>>
  /\ returned = <<>>
  /\ failed = {}

\* the provider is not asked
NoProvider == provider = {}

\* tw_stock_company_info_clean exists and is empty; main has not been called
InitClean ==
  /\ cStore = {}
  /\ cNow = 0
  /\ cPc = "idle"
  /\ cTodo = <<>>
  /\ cLog = <<>>
  /\ cInserted = 0

InitWriter == InitDb /\ NoPlan /\ InitRun /\ NoProvider /\ InitClean

NextWriter == WriterUpsert \/ WriterEnsure

SpecWriter == InitWriter /\ [][NextWriter]_vars

\* ----------------------------------------------------------- chunk planner
\* while cur <= e; a mutant that lets one more day in is kept beside it
ChunkHasNext_Inclusive(cur, e) == cur <= e + 1
ChunkHasNext(cur, e) == cur <= e

\* chunk_end = min(cur + delta - timedelta(days=1), e); a mutant without the
\* "- 1" is kept beside it
ChunkEnd_OffByOne(cur, e, step_days) == Min(cur + step_days, e)
ChunkEnd(cur, e, step_days) == Min(cur + step_days - 1, e)

\* cur = chunk_end + timedelta(days=1); a mutant without the day added is
\* kept beside it
ChunkNextCur_Stay(chunk_end) == chunk_end
ChunkNextCur(chunk_end) == chunk_end + 1

\* the generator is followed to its end when step_days >= 1; with
\* step_days <= 0 it never ends and is followed for MaxIter chunks
PlanFollowed == pStep >= 1 \/ Len(pOut) < MaxIter

\* one next() that reaches the yield
PlanYield ==
  /\ pPc = "run"
  /\ ChunkHasNext(pCur, Strptime(pEnd))
  /\ PlanFollowed
  /\ LET chunk_end == ChunkEnd(pCur, Strptime(pEnd), pStep) IN
       /\ pOut' = Append(pOut, <<Iso(pCur), Iso(chunk_end)>>)
       /\ pCur' = ChunkNextCur(chunk_end)
  /\ UNCHANGED <<pStart, pEnd, pStep, pPc>>
  /\ UNCHANGED <<dbVars, runVars, histVars>>
  /\ UNCHANGED <<cleanVars, provider>>

\* one next() that leaves the loop: StopIteration
PlanStop ==
  /\ pPc = "run"
  /\ ~ChunkHasNext(pCur, Strptime(pEnd))
  /\ pPc' = "done"
  /\ UNCHANGED <<pStart, pEnd, pStep, pCur, pOut>>
  /\ UNCHANGED <<dbVars, runVars, histVars>>
  /\ UNCHANGED <<cleanVars, provider>>

InitPlan ==
  /\ pStart \in IsoDates
  /\ pEnd \in IsoDates
  /\ pStep \in StepValues
  /\ pCur = Strptime(pStart)
  /\ pOut = <<>>
  /\ pPc = "run"
  /\ InitDb
  /\ InitRun
  /\ NoProvider
  /\ InitClean

NextPlan == PlanYield \/ PlanStop

SpecPlan == InitPlan /\ [][NextPlan]_vars

\* the consumer's for loop keeps calling next() until StopIteration
SpecPlanFair == SpecPlan /\ WF_vars(NextPlan)

\* --------------------------------------------------------- watermark resolver
\* SELECT MAX(date) ... WHERE stock_id = %s, as _get_db_max_date returns it:
\* the ISO string of the latest date stored for the stock, None without one;
\* a mutant that takes the earliest date is kept beside it
DatesOf(st, stock_id) == { r["date"][1] : r \in { x \in st : x["stock_id"] = <<stock_id>> } }

MaxOf(S) == CHOOSE m \in S : \A x \in S : x <= m
MinOf(S) == CHOOSE m \in S : \A x \in S : m <= x

get_db_max_date_Earliest(st, stock_id) ==
  IF DatesOf(st, stock_id) = {} THEN Null ELSE Iso(MinOf(DatesOf(st, stock_id)))
get_db_max_date(st, stock_id) ==
  IF DatesOf(st, stock_id) = {} THEN Null ELSE Iso(MaxOf(DatesOf(st, stock_id)))

\* ------------------------------------------------------------- orchestrator
START_FALLBACK == Iso(0)

\* the symbols run_full_history is given
Symbols == <<"2330", "2317">>

\* start = (max_in_db + 1 day).isoformat() if max_in_db else START_FALLBACK;
\* two mutants are kept beside it: one that starts on the watermark itself,
\* one that starts two days after it
StartAfter_SameDay(max_in_db) ==
  IF max_in_db # Null THEN max_in_db ELSE START_FALLBACK
StartAfter_SkipDay(max_in_db) ==
  IF max_in_db # Null THEN Iso(Strptime(max_in_db) + 2) ELSE START_FALLBACK
StartAfter(max_in_db) ==
  IF max_in_db # Null THEN Iso(Strptime(max_in_db) + 1) ELSE START_FALLBACK

\* the chunk the planner yields at cursor c, as the two ISO strings
ChunkAt(c, end) == <<Iso(c), Iso(ChunkEnd(c, Strptime(end), CHUNK_DAYS))>>

\* the frames fetch_margin_short may return for a chunk: the provider's
\* records of the stock for some days of the chunk (none: the empty frame),
\* or one record whose date does not parse
DayRows(stock_id, D) ==
  LET RECURSIVE up(_)
      up(d) == IF d > MaxToday THEN <<>>
               ELSE (IF d \in D THEN <<RawRow(Iso(d), stock_id, <<10>>)>> ELSE <<>>)
                      \o up(d + 1)
  IN up(0)

FetchedFrames(stock_id, s, e) ==
  { [columns |-> BaseCols, dtypes |-> BaseDtypes, rows |-> DayRows(stock_id, D)] :
      D \in SUBSET (Strptime(s)..Strptime(e)) \ {{}} }
    \cup { [columns |-> BaseCols, dtypes |-> BaseDtypes,
            rows |-> <<RawRow(BadDate, stock_id, <<10>>)>>] }

\* how the server answers the write of a chunk: it accepts the ALTER and
\* the INSERT, or fails one of them
RunAnswers == { <<TRUE, "none">>, <<TRUE, "OperationalError">>, <<FALSE, "none">> }

Attempt(stock_id, chunk, outcome, n) ==
  [stock_id |-> stock_id, s |-> chunk[1], e |-> chunk[2],
   outcome |-> outcome, n |-> n]

\* run_full_history(): ensure_table_exists() finds the table, end is today.
\* Of the failed chunks, those of the run before stay on record.
StartRun ==
  /\ rPc \in {"idle", "done", "crashed"}
  /\ runNo < MaxRuns
  /\ runNo' = runNo + 1
  /\ now' = now + 1
  /\ \E d \in Strptime(today)..MaxToday : today' = Iso(d)
  /\ rPc' = "symbol"
  /\ idx' = 1
  /\ attempts' = <<>>
  /\ returned' = <<>>
  /\ failed' = { f \in failed : f.run = runNo }
  /\ UNCHANGED <<store, schema, sqlLog, wRet, rStart, rCur, rTotal>>
  /\ UNCHANGED planVars
  /\ UNCHANGED <<cleanVars, provider>>

\* run_full_history_for_symbol up to its loop: the watermark query answers;
\* start > end: "already current", return 0; else enter the chunk loop
BeginSymbol ==
  /\ rPc = "symbol"
  /\ idx <= Len(Symbols)
  /\ rStart' = StartAfter(get_db_max_date(store, Symbols[idx]))
  /\ IF StrGT(rStart', today)
     THEN /\ returned' = Append(returned,
               [stock_id |-> Symbols[idx], start |-> rStart', total |-> 0])
          /\ idx' = idx + 1
          /\ UNCHANGED <<rPc, rCur, rTotal>>
     ELSE /\ rPc' = "chunks"
          /\ rCur' = Strptime(rStart')
          /\ rTotal' = 0
          /\ UNCHANGED <<returned, idx>>
  /\ UNCHANGED <<today, runNo, attempts, failed>>
  /\ UNCHANGED <<planVars, dbVars>>
  /\ UNCHANGED <<cleanVars, provider>>

\* the watermark query fails: _get_db_max_date raises, and so does the run
WatermarkFails ==
  /\ rPc = "symbol"
  /\ idx <= Len(Symbols)
  /\ rPc' = "crashed"
  /\ wRet' = [exc |-> "OperationalError", ret |-> 0]
  /\ UNCHANGED <<store, schema, now, sqlLog>>
  /\ UNCHANGED <<today, runNo, idx, rStart, rCur, rTotal>>
  /\ UNCHANGED <<planVars, histVars>>
  /\ UNCHANGED <<cleanVars, provider>>

\* one turn of the loop whose fetch raises: printed, slept, continue; a
\* mutant that leaves the loop instead (break) is kept beside it
FetchFails_Break ==
  /\ rPc = "chunks"
  /\ ChunkHasNext(rCur, Strptime(today))
  /\ attempts' = Append(attempts,
                        Attempt(Symbols[idx], ChunkAt(rCur, today), "failed", 0))
  /\ failed' = failed \cup
                 {[stock_id |-> Symbols[idx], s |-> rCur, run |-> runNo]}
  /\ rCur' = Strptime(today) + 1
  /\ UNCHANGED <<today, runNo, rPc, idx, rStart, rTotal, returned>>
  /\ UNCHANGED <<planVars, dbVars>>
  /\ UNCHANGED <<cleanVars, provider>>
FetchFails ==
  /\ rPc = "chunks"
  /\ ChunkHasNext(rCur, Strptime(today))
  /\ attempts' = Append(attempts,
                        Attempt(Symbols[idx], ChunkAt(rCur, today), "failed", 0))
  /\ failed' = failed \cup
                 {[stock_id |-> Symbols[idx], s |-> rCur, run |-> runNo]}
  /\ rCur' = ChunkNextCur(Strptime(ChunkAt(rCur, today)[2]))
  /\ UNCHANGED <<today, runNo, rPc, idx, rStart, rTotal, returned>>
  /\ UNCHANGED <<planVars, dbVars>>
  /\ UNCHANGED <<cleanVars, provider>>

\* the answers of the provider to one request: an HTTP error status, a body
\* without "data", a body whose "data" is empty, a body with records
Responses ==
  { [status |-> 500, data |-> "absent"], [status |-> 200, data |-> "absent"],
    [status |-> 200, data |-> "empty"], [status |-> 200, data |-> "records"] }

\* fetch_margin_short on the answer resp: it raises, returns pd.DataFrame()
\* or returns the frame of the records
fetch_margin_short(resp) ==
  IF resp.status >= 400 THEN "failed"
  ELSE IF resp.data = "absent" \/ resp.data = "empty" THEN "empty"
  ELSE "records"

\* one turn of the loop whose fetch returns the empty frame: continue; a
\* mutant that lets the turn end the run is kept beside it
FetchEmpty_Raise ==
  /\ rPc = "chunks"
  /\ ChunkHasNext(rCur, Strptime(today))
  /\ attempts' = Append(attempts,
                        Attempt(Symbols[idx], ChunkAt(rCur, today), "empty", 0))
  /\ rPc' = "crashed"
  /\ UNCHANGED <<today, runNo, rCur, idx, rStart, rTotal, returned, failed>>
  /\ UNCHANGED <<planVars, dbVars>>
  /\ UNCHANGED <<cleanVars, provider>>
FetchEmpty ==
  /\ rPc = "chunks"
  /\ ChunkHasNext(rCur, Strptime(today))
  /\ attempts' = Append(attempts,
                        Attempt(Symbols[idx], ChunkAt(rCur, today), "empty", 0))
  /\ rCur' = ChunkNextCur(Strptime(ChunkAt(rCur, today)[2]))
  /\ UNCHANGED <<today, runNo, rPc, idx, rStart, rTotal, returned, failed>>
  /\ UNCHANGED <<planVars, dbVars>>
  /\ UNCHANGED <<cleanVars, provider>>

\* the rest of a turn whose write ended as res: total_written += written,
\* or the exception leaves run_full_history_for_symbol and run_full_history
AfterWrite(res) ==
  /\ DbBecomes(res)
  /\ IF res.exc = "none"
     THEN /\ rTotal' = rTotal + res.ret
          /\ attempts' = Append(attempts,
               Attempt(Symbols[idx], ChunkAt(rCur, today), "written", res.ret))
          /\ rCur' = ChunkNextCur(Strptime(ChunkAt(rCur, today)[2]))
          /\ UNCHANGED rPc
     ELSE /\ rPc' = "crashed"
          /\ attempts' = Append(attempts,
               Attempt(Symbols[idx], ChunkAt(rCur, today), res.exc, 0))
          /\ UNCHANGED <<rTotal, rCur>>

\* one turn of the loop whose fetch returns records: _upsert_df_to_mysql(df)
FetchAndWrite ==
  /\ rPc = "chunks"
  /\ ChunkHasNext(rCur, Strptime(today))
  /\ \E df \in FetchedFrames(Symbols[idx], ChunkAt(rCur, today)[1],
                             ChunkAt(rCur, today)[2]),
        ans \in RunAnswers :
       AfterWrite(upsert_df_to_mysql(df, store, schema, now, ans[1], ans[2]))
  /\ UNCHANGED <<now, today, runNo, idx, rStart, returned, failed>>
  /\ UNCHANGED planVars
  /\ UNCHANGED <<cleanVars, provider>>

\* the planner is exhausted: return total_written, on to the next symbol
EndSymbol ==
  /\ rPc = "chunks"
  /\ ~ChunkHasNext(rCur, Strptime(today))
  /\ returned' = Append(returned,
       [stock_id |-> Symbols[idx], start |-> rStart, total |-> rTotal])
  /\ idx' = idx + 1
  /\ rPc' = "symbol"
  /\ UNCHANGED <<today, runNo, rStart, rCur, rTotal, attempts, failed>>
  /\ UNCHANGED <<planVars, dbVars>>
  /\ UNCHANGED <<cleanVars, provider>>

\* the for loop over the symbols is over
EndRun ==
  /\ rPc = "symbol"
  /\ idx > Len(Symbols)
  /\ rPc' = "done"
  /\ UNCHANGED <<today, runNo, idx, rStart, rCur, rTotal>>
  /\ UNCHANGED <<planVars, dbVars, histVars>>
  /\ UNCHANGED <<cleanVars, provider>>

Init == InitDb /\ NoPlan /\ InitRun /\ NoProvider /\ InitClean

Next ==
  \/ StartRun
  \/ BeginSymbol
  \/ WatermarkFails
  \/ FetchFails
  \/ FetchEmpty
  \/ FetchAndWrite
  \/ EndSymbol
  \/ EndRun

Spec == Init /\ [][Next]_vars

\* ------------------------------------------- runs that are interrupted
\* The provider answers every fetch with the records it has for the days of
\* the chunk, the server accepts every statement, and the process may be
\* interrupted (KeyboardInterrupt, kill) at any point of a run.
ProviderDays(s, e) == provider \cap (Strptime(s)..Strptime(e))

ProviderFrame(stock_id, s, e) ==
  [columns |-> BaseCols, dtypes |-> BaseDtypes,
   rows |-> DayRows(stock_id, ProviderDays(s, e))]

\* the provider has nothing for the chunk: fetch_margin_short returns the
\* empty frame
ProviderEmpty ==
  /\ rPc = "chunks"
  /\ ChunkHasNext(rCur, Strptime(today))
  /\ ProviderDays(ChunkAt(rCur, today)[1], ChunkAt(rCur, today)[2]) = {}
  /\ FetchEmpty

\* the provider has records for the chunk: they are fetched and written
ProviderWrite ==
  /\ rPc = "chunks"
  /\ ChunkHasNext(rCur, Strptime(today))
  /\ ProviderDays(ChunkAt(rCur, today)[1], ChunkAt(rCur, today)[2]) # {}
  /\ AfterWrite(upsert_df_to_mysql(
       ProviderFrame(Symbols[idx], ChunkAt(rCur, today)[1], ChunkAt(rCur, today)[2]),
       store, schema, now, TRUE, "none"))
  /\ UNCHANGED <<now, today, runNo, idx, rStart, returned, failed>>
  /\ UNCHANGED planVars
  /\ UNCHANGED <<cleanVars, provider>>

\* the process is interrupted between two statements of a run
Interrupt ==
  /\ rPc \in {"symbol", "chunks"}
  /\ rPc' = "crashed"
  /\ UNCHANGED <<today, runNo, idx, rStart, rCur, rTotal>>
  /\ UNCHANGED <<planVars, dbVars, histVars>>
  /\ UNCHANGED <<cleanVars, provider>>

\* what a write that would end as res leaves when the process is interrupted
\* inside it: after conn.commit() the rows are there; before it the INSERT is
\* rolled back with the connection (the table is InnoDB), while the ALTER,
\* which commits by itself, stays
InterruptedWrite(res, committed) ==
  /\ schema' = res.schema
  /\ store' = IF committed THEN res.store
              ELSE AlterRows(store, DOMAIN res.schema \ DOMAIN schema)
  /\ sqlLog' = res.log
  /\ wRet' = [exc |-> "KeyboardInterrupt", ret |-> 0]
  /\ rPc' = "crashed"

\* the process is interrupted inside _upsert_df_to_mysql
InterruptInWrite ==
  /\ rPc = "chunks"
  /\ ChunkHasNext(rCur, Strptime(today))
  /\ ProviderDays(ChunkAt(rCur, today)[1], ChunkAt(rCur, today)[2]) # {}
  /\ \E committed \in BOOLEAN :
       InterruptedWrite(upsert_df_to_mysql(
           ProviderFrame(Symbols[idx], ChunkAt(rCur, today)[1],
                         ChunkAt(rCur, today)[2]),
           store, schema, now, TRUE, "none"),
         committed)
  /\ UNCHANGED <<now, today, runNo, idx, rStart, rCur, rTotal>>
  /\ UNCHANGED <<planVars, histVars>>
  /\ UNCHANGED <<cleanVars, provider>>

InitResume ==
  /\ InitDb
  /\ NoPlan
  /\ InitRun
  /\ InitClean
  /\ provider \in SUBSET (0..MaxToday)

NextResume ==
  \/ StartRun
  \/ BeginSymbol
  \/ ProviderEmpty
  \/ ProviderWrite
  \/ Interrupt
  \/ InterruptInWrite
  \/ EndSymbol
  \/ EndRun

SpecResume == InitResume /\ [][NextResume]_vars

\* ------------------------------------------------ the clean-table upsert
\* build_clean_row(stock_id, s): the tuple for UPSERT_SQL.  The company
\* document s is known by its version v: the names, market, address and
\* description built from it are v, and version 1 has no internetAddress.
\* industry_id is always None.
build_clean_row(stock_id, v) ==
  [stock_id |-> <<stock_id>>,
   stock_name |-> <<v>>,
   industry_id |-> Null,
   market |-> <<v>>,
   country |-> <<"TW">>,
   currency |-> <<"TWD">>,
   office_website |-> IF v = 1 THEN Null ELSE <<v>>,
   address |-> <<v>>,
   description |-> <<v>>]

CleanCols ==
  {"stock_id", "stock_name", "industry_id", "market", "country", "currency",
   "office_website", "address", "description"}

\* the stocks tw_stock_company_info may have a row for, in the order the
\* SELECT returns them
CleanStocks == <<"2317", "2330", "2454">>

\* the contents of tw_stock_company_info, stock_id being its key: for each
\* stock no row (0) or the version of its document; one stock has two
SourceTables ==
  { f \in [SeqToSet(CleanStocks) -> 0..2] :
      \A sid \in SeqToSet(CleanStocks) : f[sid] = 2 => sid = "2330" }

RECURSIVE BuildRows(_, _)
\* to_insert: build_clean_row of each row fetched, from the i-th stock on
BuildRows(f, i) ==
  IF i > Len(CleanStocks) THEN <<>>
  ELSE (IF f[CleanStocks[i]] = 0 THEN <<>>
        ELSE <<build_clean_row(CleanStocks[i], f[CleanStocks[i]])>>)
         \o BuildRows(f, i + 1)

\* the first size items of q, all of q when it is shorter
Take(q, size) == SubSeq(q, 1, Min(size, Len(q)))

RECURSIVE chunked(_, _)
\* chunked(iterable, size): the lists it yields, in order
chunked(q, size) ==
  IF q = <<>> THEN <<>>
  ELSE <<Take(q, size)>> \o chunked(SubSeq(q, Len(Take(q, size)) + 1, Len(q)), size)

\* ON DUPLICATE KEY UPDATE of UPSERT_SQL on row r; a mutant without the
\* COALESCE is kept beside it
CleanUpdatedRow_NoCoalesce(r, rec, t) ==
  [c \in DOMAIN r |->
     IF c = "stock_id" THEN r[c]
     ELSE IF c = "updated_at" THEN <<t>>
     ELSE rec[c]]
CleanUpdatedRow(r, rec, t) ==
  [c \in DOMAIN r |->
     IF c = "stock_id" THEN r[c]
     ELSE IF c = "industry_id"
       THEN (IF rec[c] # Null THEN rec[c] ELSE r[c])
     ELSE IF c = "updated_at" THEN <<t>>
     ELSE rec[c]]

\* UPSERT_SQL of one record at server time t
CleanUpsertRow(st, rec, t) ==
  IF \E r \in st : r["stock_id"] = rec["stock_id"]
  THEN { IF r["stock_id"] = rec["stock_id"] THEN CleanUpdatedRow(r, rec, t) ELSE r :
           r \in st }
  ELSE st \cup { [c \in CleanCols \cup {"updated_at"} |->
                    IF c = "updated_at" THEN <<t>> ELSE rec[c]] }

RECURSIVE CleanExecuteMany(_, _, _)
\* cur.executemany(UPSERT_SQL, batch)
CleanExecuteMany(st, batch, t) ==
  IF batch = <<>> THEN st
  ELSE CleanExecuteMany(CleanUpsertRow(st, batch[1], t), Tail(batch), t)

\* one statement main has sent: op, the records it carries, the answer
CleanStmt(op, records, answer) == [op |-> op, records |-> records, answer |-> answer]

\* what the server may answer a statement of main with
CleanAnswers ==
  {"ok", "DataError", "OperationalError(1205)"} \cup StaleErrors

\* the single-record statements of the fallback, the k-th answered with
\* answer and not followed by another (k = 0: all are answered ok)
Singles(batch, k, answer) ==
  [i \in 1..(IF k = 0 THEN Len(batch) ELSE k) |->
     CleanStmt("INSERT", <<batch[i]>>, IF i = k THEN answer ELSE "ok")]

\* what main sends for one batch after the ping: the batched statement,
\* answered first; after a stale-connection answer the ping and the batch
\* once more, answered second; after a DataError the records one by one, the
\* k-th answered second
BatchStatements(batch, first, second, k) ==
  <<CleanStmt("PING", <<>>, "ok"), CleanStmt("INSERT", batch, first)>>
    \o (IF first \in StaleErrors
        THEN <<CleanStmt("PING", <<>>, "ok"), CleanStmt("INSERT", batch, second)>>
        ELSE IF first = "DataError" THEN Singles(batch, k, second)
        ELSE <<>>)

\* the batch reaches conn.commit(): the last statement sent was answered ok
\* and, in the fallback, it was the last record's
BatchCommitted(batch, first, second, k) ==
  \/ first = "ok"
  \/ first \in StaleErrors /\ second = "ok"
  \/ first = "DataError" /\ k = 0

\* main() down to "[BUILD]": the rows are read and to_insert is built
CleanStart ==
  /\ cPc \in {"idle", "done", "crashed"}
  /\ cNow < MaxCleanRuns
  /\ cNow' = cNow + 1
  /\ \E rows \in SourceTables :
       cTodo' = chunked(BuildRows(rows, 1), UPSERT_BATCH_SIZE)
  /\ cLog' = <<>>
  /\ cInserted' = 0
  /\ cPc' = "upsert"
  /\ UNCHANGED cStore
  /\ UNCHANGED <<planVars, dbVars, runVars, histVars, provider>>

\* one turn of the loop over the batches, the server answering as chosen
CleanBatchAnswered(batch, first, second, k) ==
  /\ cLog' = cLog \o BatchStatements(batch, first, second, k)
  /\ IF BatchCommitted(batch, first, second, k)
     THEN /\ cStore' = CleanExecuteMany(cStore, batch, cNow)
          /\ cInserted' = cInserted + Len(batch)
          /\ cTodo' = Tail(cTodo)
          /\ UNCHANGED cPc
     ELSE /\ cPc' = "crashed"
          /\ UNCHANGED <<cStore, cInserted, cTodo>>

CleanBatch ==
  /\ cPc = "upsert"
  /\ cTodo # <<>>
  /\ \E first \in CleanAnswers :
       \E k \in (IF first = "DataError" THEN 0..Len(cTodo[1]) ELSE {0}) :
         \E second \in (IF first \in StaleErrors THEN CleanAnswers
                        ELSE IF k # 0 THEN CleanAnswers \ {"ok"}
                        ELSE {"ok"}) :
           CleanBatchAnswered(cTodo[1], first, second, k)
  /\ UNCHANGED cNow
  /\ UNCHANGED <<planVars, dbVars, runVars, histVars, provider>>

\* the loop is over: "[DB] upsert done"
CleanUpsertDone ==
  /\ cPc = "upsert"
  /\ cTodo = <<>>
  /\ cPc' = "sync"
  /\ UNCHANGED <<cStore, cNow, cTodo, cLog, cInserted>>
  /\ UNCHANGED <<planVars, dbVars, runVars, histVars, provider>>

\* the industry_id the join of stock_demo and tw_industry_mapping gives each
\* stock: a number, or Null where the join has no row
IndustryJoins == [SeqToSet(CleanStocks) -> {Null, <<1>>, <<2>>}]

\* UPDATE_FROM_STOCK_DEMO_SQL
SyncRow(r, m, t) ==
  IF m[r["stock_id"][1]] # Null
       /\ (r["industry_id"] = Null \/ r["industry_id"] # m[r["stock_id"][1]])
  THEN [r EXCEPT !["industry_id"] = m[r["stock_id"][1]], !["updated_at"] = <<t>>]
  ELSE r

\* the cross-DB update at the end of main, accepted or not
CleanSync ==
  /\ cPc = "sync"
  /\ \E m \in IndustryJoins, ok \in BOOLEAN :
       IF ok
       THEN /\ cStore' = { SyncRow(r, m, cNow) : r \in cStore }
            /\ cPc' = "done"
       ELSE /\ cPc' = "crashed"
            /\ UNCHANGED cStore
  /\ UNCHANGED <<cNow, cTodo, cLog, cInserted>>
  /\ UNCHANGED <<planVars, dbVars, runVars, histVars, provider>>

InitCleanRun == InitDb /\ NoPlan /\ InitRun /\ NoProvider /\ InitClean

NextClean ==
  \/ CleanStart
  \/ CleanBatch
  \/ CleanUpsertDone
  \/ CleanSync

SpecClean == InitCleanRun /\ [][NextClean]_vars

\* ------------------------------------------------------------------ claims
ChunkS(i) == Strptime(pOut[i][1])
ChunkE(i) == Strptime(pOut[i][2])

\* C1: for start <= end and max_span >= 1 the chunks, in output order, start
\* at start, each next one starts the day after the previous one's end, each
\* has chunk_start <= chunk_end and spans at most max_span days, only the
\* last may be shorter, and when the planner ends the last chunk ends at end.
C1_ChunksPartitionRange ==
  (Strptime(pStart) <= Strptime(pEnd) /\ pStep >= 1) =>
    /\ \A i \in 1..Len(pOut) :
         /\ ChunkS(i) <= ChunkE(i)
         /\ ChunkE(i) - ChunkS(i) + 1 <= pStep
         /\ (i = 1 => ChunkS(i) = Strptime(pStart))
         /\ (i > 1 => ChunkS(i) = ChunkE(i - 1) + 1)
         /\ (i < Len(pOut) => ChunkE(i) - ChunkS(i) + 1 = pStep)
         /\ ChunkE(i) <= Strptime(pEnd)
    /\ (pPc = "done" => /\ Len(pOut) >= 1
                        /\ ChunkE(Len(pOut)) = Strptime(pEnd))

\* a finished plan of several chunks whose last chunk is shorter than the span
C1_Witness ==
  /\ pPc = "done"
  /\ Strptime(pStart) <= Strptime(pEnd)
  /\ pStep >= 2
  /\ Len(pOut) >= 2
  /\ ChunkE(Len(pOut)) - ChunkS(Len(pOut)) + 1 < pStep

\* C2: for start > end, whatever max_span is, the planner yields no chunk:
\* its output stays empty and its first next() ends it.
C2_InvertedRangeYieldsNothing ==
  Strptime(pStart) > Strptime(pEnd) =>
    /\ pOut = <<>>
    /\ ~ENABLED PlanYield

\* a planner given start > end has ended, with nothing yielded
C2_Witness ==
  /\ Strptime(pStart) > Strptime(pEnd)
  /\ pPc = "done"
  /\ pOut = <<>>

\* ---- the writer's claims (SpecWriter)
RowKey(r) == <<r["stock_id"], r["date"]>>
Keys(st) == { RowKey(r) : r \in st }

\* the key the server gives a raw record whose date parses
RawKey(rec) == <<rec["stock_id"], SqlDate(rec["date"])>>
RawKeys(df) == { RawKey(df.rows[i]) : i \in 1..Len(df.rows) }

\* the value a raw record supplies for canonical column c
Supplied(rec, c) ==
  IF c \in SnakeNames /\ SNAKE_TO_FINMIND[c] \in DOMAIN rec
  THEN rec[SNAKE_TO_FINMIND[c]]
  ELSE IF c \in DOMAIN rec THEN rec[c] ELSE Null

\* no two rows share (stock_id, date)
KeyUnique(st) == \A r1 \in st, r2 \in st : RowKey(r1) = RowKey(r2) => r1 = r2

\* the rows without the server's timestamps
DataOf(st) == { [c \in DOMAIN r \ {"created_at", "updated_at"} |-> r[c]] : r \in st }

\* a write of df that the server accepts
WriteOk(df, st, sch, t) == upsert_df_to_mysql(df, st, sch, t, TRUE, "none")

\* what C3 says of one accepted write of df, from table st to once.store,
\* and of the same write made again, to twice.store
C3_OfWrite(df, st, once, twice) ==
  (once.exc = "none" /\ ~DfEmpty(df)) =>
    /\ KeyUnique(once.store)
    /\ Keys(once.store) = Keys(st) \cup RawKeys(df)
    /\ (RawKeys(df) \subseteq Keys(st) =>
          Cardinality(once.store) = Cardinality(st))
    /\ \A i \in 1..Len(df.rows) :
         (\A j \in (i + 1)..Len(df.rows) : RawKey(df.rows[j]) # RawKey(df.rows[i]))
           => \E r \in once.store :
                /\ RowKey(r) = RawKey(df.rows[i])
                /\ \A c \in UpdateCols : r[c] = Supplied(df.rows[i], c)
    /\ \A r \in st :
         RowKey(r) \notin RawKeys(df)
           => \E r2 \in once.store : \A c \in DOMAIN r : r2[c] = r[c]
    /\ twice.exc = "none"
    /\ DataOf(twice.store) = DataOf(once.store)
    /\ twice.ret = once.ret

C3_OfWrites(df, st, once, t) ==
  C3_OfWrite(df, st, once, WriteOk(df, once.store, once.schema, t))

\* C3: the table holds at most one row per (stock_id, date); an accepted
\* write of any frame leaves exactly the old keys and the frame's keys, so
\* the row count is unchanged when every key of the frame was there; each key
\* of the frame ends with the non-key columns of the INSERT set to the values
\* of the frame's last record for it, NULL where that record has none; rows
\* of other keys are untouched; and the same write made again leaves the same
\* rows (server timestamps apart) and returns the same count.
C3_UpsertIdempotentKeyUnique ==
  /\ KeyUnique(store)
  /\ \A df \in RawDfs :
       C3_OfWrites(df, store, WriteOk(df, store, schema, now + 1), now + 2)

\* a key written, then written again with no value: one row, updated, NULL
C3_Witness ==
  /\ wRet.exc = "none"
  /\ wRet.ret >= 1
  /\ \E r \in store :
       /\ r["updated_at"] # r["created_at"]
       /\ r["margin_purchase_buy"] = Null
  /\ Cardinality(store) >= 2

\* ---- the orchestrator's claims (Spec)
\* C4: when a chunk's fetch has failed in a run, the start the following run
\* computes for that stock (watermark + 1 day) is not later than the failed
\* chunk's first day, so its dates are fetched again.
C4_NoGapsAfterFailedChunk ==
  [][BeginSymbol =>
       \A f \in failed :
         (f.run = runNo - 1 /\ f.stock_id = Symbols[idx])
           => Strptime(rStart') <= f.s]_vars

\* a <= b for two watermarks, None being below every date
WatermarkLE(a, b) == a = Null \/ (b # Null /\ Strptime(a) <= Strptime(b))

\* C5: the value _get_db_max_date returns for a stock never decreases from
\* one state to the next, and once it is a date it is never None again.
C5_WatermarkMonotone ==
  [][\A i \in 1..Len(Symbols) :
       WatermarkLE(get_db_max_date(store, Symbols[i]),
                   get_db_max_date(store', Symbols[i]))]_vars

\* a stock whose rows came from two runs: its watermark has advanced twice
C5_Witness ==
  /\ runNo = 2
  /\ \E r1 \in store, r2 \in store :
       /\ r1["stock_id"] = <<"2330">>
       /\ r2["stock_id"] = <<"2330">>
       /\ r1["created_at"] = <<1>>
       /\ r2["created_at"] = <<2>>
       /\ r1["date"][1] < r2["date"][1]
       /\ get_db_max_date(store, "2330") = Iso(r2["date"][1])

\* the attempts of this run made for stock_id, in order
AttemptsOf(stock_id) == SelectSeq(attempts, LAMBDA a : a.stock_id = stock_id)

RECURSIVE SumN(_)
SumN(q) == IF q = <<>> THEN 0 ELSE q[1].n + SumN(Tail(q))

\* the chunks of CHUNK_DAYS days from day c to day e
RECURSIVE ChunksFrom(_, _)
ChunksFrom(c, e) ==
  IF c > e THEN <<>>
  ELSE <<ChunkAt(c, Iso(e))>> \o ChunksFrom(Strptime(ChunkAt(c, Iso(e))[2]) + 1, e)

HasFailed(q) == \E i \in 1..Len(q) : q[i].outcome = "failed"

\* C6: for every stock the run has returned from with a fetch failure among
\* its chunks, the chunks attempted are exactly the planner's chunks from its
\* start to the end, each once and in order; a failed or empty chunk counts
\* 0; the total returned is the sum of the counts written; and the run has
\* moved on past that stock.
C6_FetchFailureIsolated ==
  \A k \in 1..Len(returned) :
    HasFailed(AttemptsOf(returned[k].stock_id)) =>
      /\ [i \in 1..Len(AttemptsOf(returned[k].stock_id)) |->
            << AttemptsOf(returned[k].stock_id)[i].s,
               AttemptsOf(returned[k].stock_id)[i].e >>]
           = ChunksFrom(Strptime(returned[k].start), Strptime(today))
      /\ \A i \in 1..Len(AttemptsOf(returned[k].stock_id)) :
           AttemptsOf(returned[k].stock_id)[i].outcome \in {"failed", "empty"}
             => AttemptsOf(returned[k].stock_id)[i].n = 0
      /\ returned[k].total = SumN(AttemptsOf(returned[k].stock_id))
      /\ returned[k].stock_id = Symbols[k]
      /\ idx > k

\* the first chunk of the first stock failed, its second chunk was written,
\* and the second stock has been started
C6_Witness ==
  /\ Len(returned) >= 1
  /\ Len(AttemptsOf(Symbols[1])) = 2
  /\ AttemptsOf(Symbols[1])[1].outcome = "failed"
  /\ AttemptsOf(Symbols[1])[2].outcome = "written"
  /\ returned[1].total >= 1
  /\ rPc = "chunks"
  /\ idx = 2

\* C7: a failure met while one stock is processed (watermark query, ALTER or
\* INSERT) never ends the run while later stocks of the list are unattempted.
C7_EntityFailureIsolated ==
  rPc = "crashed" => idx >= Len(Symbols)

\* ---- more of the writer's claims (SpecWriter)
\* C8: no INSERT handed to the server carries a record whose date is NULL (a
\* record whose date does not parse ends the call before the writer).
C8_NoNullDateWritten ==
  \A i \in 1..Len(sqlLog) : sqlLog[i].op = "INSERT" => ~sqlLog[i].nullKey

\* what C9 says of one call of the reconciler on df, ending as res
C9_OfCall(df, res) ==
  /\ \A c \in DOMAIN schema : c \in DOMAIN res.schema /\ res.schema[c] = schema[c]
  /\ (DfEmpty(df) \/ ColNames(df) \subseteq DOMAIN schema) =>
       /\ res.schema = schema
       /\ \A i \in 1..Len(res.log) : res.log[i].op # "ALTER TABLE"

\* C9: every step keeps each column of the table, with its type; and in every
\* state, a call of _ensure_missing_columns on any frame, accepted or not,
\* keeps each column with its type, and issues no ALTER and leaves the
\* columns as they are when the frame is empty or has no column the table
\* lacks.
C9_SchemaMonotoneNoOp ==
  /\ [][\A c \in DOMAIN schema :
          c \in DOMAIN schema' /\ schema'[c] = schema[c]]_vars
  /\ [](\A df \in ReconcilerDfs, alterOk \in BOOLEAN :
          C9_OfCall(df, ensure_missing_columns(df, store, schema, alterOk)))

\* a column was added beside the DDL's, and the last call of the reconciler,
\* on a frame with nothing new, sent SHOW COLUMNS alone
C9_Witness ==
  /\ "NewField" \in DOMAIN schema
  /\ schema["NewField"] = "BIGINT"
  /\ schema["note"] = DDL["note"]
  /\ sqlLog = <<ShowColumns>>

\* C10: a batched INSERT of N records answered with a data error is followed
\* by N single-record INSERTs, and when these succeed the call returns N.
C10_DataErrorFallsBack ==
  \A i \in 1..Len(sqlLog) :
    (sqlLog[i].op = "INSERT" /\ sqlLog[i].answer = "DataError") =>
      /\ Len(sqlLog) = i + sqlLog[i].n
      /\ \A j \in (i + 1)..Len(sqlLog) :
           sqlLog[j].op = "INSERT" /\ sqlLog[j].n = 1
      /\ ((\A j \in (i + 1)..Len(sqlLog) : sqlLog[j].answer = "ok")
            => wRet = [exc |-> "none", ret |-> sqlLog[i].n])

\* C11: a batched INSERT answered with a stale-connection error (2006, 2013)
\* is followed by exactly one more INSERT of the same records, and by no
\* third one.
C11_StaleBatchRetriedOnce ==
  \A i \in 1..Len(sqlLog) :
    (sqlLog[i].op = "INSERT" /\ sqlLog[i].answer \in StaleErrors
       /\ (i = 1 \/ sqlLog[i - 1].op # "INSERT")) =>
      /\ Len(sqlLog) = i + 1
      /\ sqlLog[i + 1].op = "INSERT"
      /\ sqlLog[i + 1].n = sqlLog[i].n

\* C16: every INSERT the margin writer sends carries at most
\* UPSERT_BATCH_SIZE records.
C16_InsertWithinBatchSize ==
  \A i \in 1..Len(sqlLog) :
    sqlLog[i].op = "INSERT" => sqlLog[i].n <= UPSERT_BATCH_SIZE

\* C17: a response without records is returned by the fetch as the empty
\* frame, without raising, and the turn of the loop that gets it sends no
\* statement, leaves the table, its schema, the running total and the failed
\* chunks as they are, and goes on to the chunk that follows.
C17_EmptyAttempt ==
  /\ Len(attempts') = Len(attempts) + 1
  /\ attempts'[Len(attempts')].outcome = "empty"

C17_EmptyResponseIsSuccess ==
  [][C17_EmptyAttempt =>
       /\ \A resp \in Responses :
            (resp.status = 200 /\ resp.data # "records")
              => fetch_margin_short(resp) = "empty"
       /\ UNCHANGED <<store, schema, sqlLog, wRet>>
       /\ rTotal' = rTotal
       /\ failed' = failed
       /\ rPc' = "chunks"
       /\ rCur' = Strptime(attempts'[Len(attempts')].e) + 1
       /\ rCur' > rCur]_vars

\* an empty chunk of a symbol is followed by a written chunk of the same
\* symbol, and the total counts the written records
C17_Witness ==
  /\ Len(attempts) >= 2
  /\ attempts[Len(attempts) - 1].outcome = "empty"
  /\ attempts[Len(attempts)].outcome = "written"
  /\ attempts[Len(attempts)].stock_id = attempts[Len(attempts) - 1].stock_id
  /\ attempts[Len(attempts)].s = Iso(Strptime(attempts[Len(attempts) - 1].e) + 1)
  /\ rTotal >= 1 /\ store # {}

\* C18: with step_days >= 1 every iteration moves the cursor forward, the
\* generator ends, and when start <= end it has then yielded exactly
\* ceil((end - start + 1) / step_days) chunks; with step_days <= 0 no
\* iteration moves the cursor past its previous value.
C18_Days == Strptime(pEnd) - Strptime(pStart) + 1

C18_Ceil(n, d) == (n + d - 1) \div d

C18_PlannerTerminates ==
  /\ []((pStep >= 1 /\ C18_Days >= 1) =>
          /\ Len(pOut) <= C18_Ceil(C18_Days, pStep)
          /\ (pPc = "done" => Len(pOut) = C18_Ceil(C18_Days, pStep)))
  /\ [][pOut' # pOut =>
          IF pStep >= 1 THEN pCur' > pCur ELSE pCur' <= pCur]_vars
  /\ ((pStep >= 1) ~> (pPc = "done"))

\* three days in steps of two: two chunks, the generator has ended
C18_Witness ==
  /\ pPc = "done"
  /\ pStep = 2
  /\ C18_Days = 3
  /\ Len(pOut) = 2

\* C19: every INSERT of the margin writer names the 16 canonical columns and
\* no other; every column of the table beyond those and the two timestamps
\* (the columns the reconciler added) is NULL in every row; and every row
\* stays in the table under its key with the created_at it had.
C19_WrittenCols == CanonicalSet \cup {"created_at", "updated_at"}

C19_WriterWritesCanonicalOnly ==
  /\ [](/\ \A i \in 1..Len(sqlLog) :
             sqlLog[i].op = "INSERT" =>
               (sqlLog[i].cols = CanonicalCols /\ Len(sqlLog[i].cols) = 16)
        /\ \A r \in store : \A c \in DOMAIN r \ C19_WrittenCols : r[c] = Null)
  /\ [][\A r \in store : \E q \in store' :
            /\ q["stock_id"] = r["stock_id"]
            /\ q["date"] = r["date"]
            /\ q["created_at"] = r["created_at"]]_vars

\* a row written after the reconciler added _fetched_at, _source and NewField,
\* and written again by a later call
C19_Witness ==
  \E r \in store :
    /\ {"_fetched_at", "_source", "NewField"} \subseteq DOMAIN r
    /\ r["_fetched_at"] = Null /\ r["_source"] = Null /\ r["NewField"] = Null
    /\ r["margin_purchase_buy"] # Null
    /\ r["created_at"] = <<1>>
    /\ r["updated_at"] = <<2>>

\* ---- the clean-table upsert (SpecClean)
\* C20: outside the sync step every stored row keeps its stock_id and its
\* industry_id, whatever is upserted; and a committed batch leaves, for each
\* stock_id in it, the row holding the values of the last record supplied for
\* that stock_id in every column but stock_id and industry_id, a NULL
\* office_website included.
C20_Supplied == CleanCols \ {"stock_id", "industry_id"}

C20_LastOf(batch, i) ==
  \A j \in (i + 1)..Len(batch) : batch[j]["stock_id"] # batch[i]["stock_id"]

C20_BatchCommitted ==
  /\ cPc = "upsert" /\ cPc' = "upsert"
  /\ cInserted' > cInserted

C20_IndustryIdKept ==
  /\ [][cPc # "sync" =>
          \A r \in cStore : \E q \in cStore' :
            /\ q["stock_id"] = r["stock_id"]
            /\ q["industry_id"] = r["industry_id"]]_vars
  /\ [][C20_BatchCommitted =>
          \A i \in 1..Len(cTodo[1]) :
            C20_LastOf(cTodo[1], i) =>
              \E q \in cStore' :
                /\ q["stock_id"] = cTodo[1][i]["stock_id"]
                /\ \A c \in C20_Supplied : q[c] = cTodo[1][i][c]
                /\ q["updated_at"] = <<cNow>>]_vars
  /\ [](\A i \in 1..Len(cTodo) : \A j \in 1..Len(cTodo[i]) :
          cTodo[i][j]["industry_id"] = Null)

\* in the second run, before its sync: a row whose industry_id the first
\* run's sync set has been upserted again
C20_Witness ==
  /\ cNow = 2
  /\ cPc = "upsert"
  /\ cInserted >= 1
  /\ \E r \in cStore :
       /\ r["industry_id"] # Null
       /\ r["updated_at"] = <<2>>
       /\ r["office_website"] # Null

\* ---- resumed runs (SpecResume)
\* the days of the chunk in hand the provider has records for
ChunkInHand ==
  IF ChunkHasNext(rCur, Strptime(today))
  THEN ProviderDays(ChunkAt(rCur, today)[1], ChunkAt(rCur, today)[2])
  ELSE {}

\* C12: with a provider that answers every fetch, however runs are
\* interrupted and started again: no two rows share (stock_id, date); the
\* rows of a stock are always exactly the provider's records up to the
\* stock's watermark; every step commits, for the stock in hand, either no
\* row or the rows of all the provider's records of the chunk in hand; and a
\* stock a run has returned from has a row for exactly the provider's records
\* from START_FALLBACK to the end date, each with the provider's value, as
\* an uninterrupted run leaves it.
C12_SafeResume ==
  /\ [](/\ KeyUnique(store)
        /\ \A i \in 1..Len(Symbols) :
             /\ get_db_max_date(store, Symbols[i]) # Null =>
                  DatesOf(store, Symbols[i])
                    = provider \cap (0..Strptime(get_db_max_date(store, Symbols[i])))
             /\ (rPc = "done" \/ (rPc \in {"symbol", "chunks"} /\ i <= Len(returned))) =>
                  /\ DatesOf(store, Symbols[i]) = provider \cap (0..Strptime(today))
                  /\ \A r \in store : r["margin_purchase_buy"] = <<10>>)
  /\ [][\A i \in 1..Len(Symbols) :
          \/ DatesOf(store', Symbols[i]) = DatesOf(store, Symbols[i])
          \/ /\ i = idx
             /\ DatesOf(store', Symbols[i]) \ DatesOf(store, Symbols[i]) = ChunkInHand]_vars

\* a run was interrupted after it had written rows of the first stock and
\* before it wrote the second stock's; the next run has ended
C12_Witness ==
  /\ rPc = "done"
  /\ runNo = 2
  /\ \E r1 \in store, r2 \in store, r3 \in store :
       /\ r1["stock_id"] = <<"2330">> /\ r1["created_at"] = <<1>>
       /\ r2["stock_id"] = <<"2330">> /\ r2["created_at"] = <<2>>
       /\ r3["stock_id"] = <<"2317">> /\ r3["created_at"] = <<2>>
       /\ r3["date"] = r1["date"]

\* ---- more of the orchestrator's claims (Spec)
\* the day after the latest day stored for the stock, day 0 (2001-01-01)
\* when it has no row
DayAfterLatest(stock_id) ==
  IF \E r \in store : r["stock_id"] = <<stock_id>>
  THEN 1 + MaxOf({ r["date"][1] : r \in { x \in store : x["stock_id"] = <<stock_id>> } })
  ELSE 0

\* C13: the start run_full_history_for_symbol computes is the day after the
\* stock's watermark, 2001-01-01 without one; when it is later than the end
\* date the stock is returned from at once with 0, the table, its columns and
\* the statements sent are as before and no chunk is fetched; otherwise the
\* chunk loop starts on that day.  A stock skipped has no chunk attempted in
\* the run.
C13_StartDerivedOrSkipped ==
  /\ [][BeginSymbol =>
          /\ rStart' = Iso(DayAfterLatest(Symbols[idx]))
          /\ IF DayAfterLatest(Symbols[idx]) > Strptime(today)
             THEN /\ returned' = Append(returned,
                       [stock_id |-> Symbols[idx], start |-> rStart', total |-> 0])
                  /\ idx' = idx + 1
                  /\ UNCHANGED <<store, schema, sqlLog, wRet, attempts>>
             ELSE /\ rPc' = "chunks"
                  /\ rCur' = DayAfterLatest(Symbols[idx])
                  /\ UNCHANGED returned]_vars
  /\ [](\A k \in 1..Len(returned) :
          Strptime(returned[k].start) > Strptime(today) =>
            /\ returned[k].total = 0
            /\ AttemptsOf(returned[k].stock_id) = <<>>)

\* in one run the first stock, which has rows, was skipped as already
\* current, and the second, which has none, started from 2001-01-01
C13_Witness ==
  /\ Len(returned) = 1
  /\ Strptime(returned[1].start) > Strptime(today)
  /\ get_db_max_date(store, Symbols[1]) = today
  /\ rPc = "chunks"
  /\ idx = 2
  /\ rStart = START_FALLBACK
  /\ get_db_max_date(store, Symbols[2]) = Null

\* ---- the reconciler's and the normalizer's claims (SpecWriter)
\* the column type the claim gives a new field of this data type
C14_TypeFor(dtype) ==
  CASE dtype = "int" -> "BIGINT"
    [] dtype = "float" -> "DOUBLE"
    [] OTHER -> "VARCHAR(255)"

\* the fields of df, the key columns apart, the table has no column for
C14_NewFields(df) == (ColNames(df) \ KeyCols) \ DOMAIN schema

\* C14: in every call of the writer the INSERT is sent after SHOW COLUMNS and
\* after the ALTER, if any, was accepted, and at most one ALTER is sent; and
\* in every state, the reconciler called on a frame with exactly one field the
\* table lacks sends SHOW COLUMNS and then one ALTER with one ADD COLUMN of
\* that field: BIGINT for integer data, DOUBLE for float data, VARCHAR(255)
\* for anything else.
C14_ReconcileBeforeWrite ==
  /\ \A i \in 1..Len(sqlLog) :
       sqlLog[i].op = "INSERT" =>
         /\ i >= 2
         /\ sqlLog[1] = ShowColumns
         /\ \A j \in 1..Len(sqlLog) :
              sqlLog[j].op = "ALTER TABLE" => (j = 2 /\ j < i /\ sqlLog[j].answer = "ok")
  /\ \A df \in ReconcilerDfs :
       (~DfEmpty(df) /\ Cardinality(C14_NewFields(df)) = 1) =>
         \E c \in C14_NewFields(df) :
           ensure_missing_columns(df, store, schema, TRUE).log
             = << ShowColumns,
                  [op |-> "ALTER TABLE",
                   adds |-> << <<c, C14_TypeFor(df.dtypes[c])>> >>,
                   cols |-> <<>>, n |-> 0, nullKey |-> FALSE, answer |-> "ok"] >>

\* a write of a record with one new integer field, the stamps' columns being
\* there already: SHOW COLUMNS, one ALTER adding one BIGINT column, the INSERT
C14_Witness ==
  /\ Len(sqlLog) = 3
  /\ sqlLog[2].op = "ALTER TABLE"
  /\ sqlLog[2].adds = << <<"NewField", "BIGINT">> >>
  /\ sqlLog[3].op = "INSERT"
  /\ sqlLog[3].answer = "ok"
  /\ "NewField" \in DOMAIN schema

\* the values column c holds in the records q
C15_Values(q, c) == { q[i][c] : i \in 1..Len(q) }

\* what C15 says of the normalizer's output out for the raw frame df
C15_OfFrame(df, out) ==
  /\ CanonicalSet \subseteq SeqToSet(out.columns)
  /\ Len(out.rows) = Len(df.rows)
  /\ \A c \in SeqToSet(df.columns) :
       IF c \in FinmindNames
       THEN /\ c \notin SeqToSet(out.columns)
            /\ FINMIND_TO_SNAKE[c] \in SeqToSet(out.columns)
            /\ C15_Values(out.rows, FINMIND_TO_SNAKE[c]) = C15_Values(df.rows, c)
       ELSE /\ c \in SeqToSet(out.columns)
            /\ c # "date" => C15_Values(out.rows, c) = C15_Values(df.rows, c)
  /\ \A i \in 1..Len(out.rows) :
       /\ DOMAIN out.rows[i] = SeqToSet(out.columns)
       /\ \A c \in CanonicalSet :
            (c \notin SeqToSet(df.columns)
               /\ (c \notin SnakeNames \/ SNAKE_TO_FINMIND[c] \notin SeqToSet(df.columns)))
              => out.rows[i][c] = Null
       /\ "_fetched_at" \in DOMAIN out.rows[i] /\ out.rows[i]["_fetched_at"] # Null
       /\ "_source" \in DOMAIN out.rows[i] /\ out.rows[i]["_source"] = <<"FinMind">>

\* C15: for every raw frame, the empty one included, finmind_to_snake returns
\* a frame whose columns include every canonical column, with the provider's
\* fields renamed, the canonical columns the input lacks NULL, the other
\* fields kept, as many records as the input and both stamps on each.
C15_NormalizerOutputColumns ==
  \A df \in RawDfs : C15_OfFrame(df, finmind_to_snake(df, now + 1))

\* C15 as amended: for every raw frame with at least one record the output
\* is as C15 says; a frame without records is returned as it is, with the
\* columns it came with and none added.
C15_NonEmptyNormalizerOutput ==
  \A df \in RawDfs :
    IF DfEmpty(df)
    THEN finmind_to_snake(df, now + 1) = df
    ELSE C15_OfFrame(df, finmind_to_snake(df, now + 1))

\* a record with a provider field and an unknown field went through the
\* normalizer and the writer: the unknown field and both stamps reached the
\* reconciler under their own names, the provider field its canonical column
C15_Witness ==
  /\ {"NewField", "_fetched_at", "_source"} \subseteq DOMAIN schema
  /\ "MarginPurchaseBuy" \notin DOMAIN schema
  /\ wRet.exc = "none"
  /\ \E r \in store : r["margin_purchase_buy"] = <<10>> /\ r["note"] = Null

====
